---- MODULE Spec2Model ----
(***************************************************************************)
(* Model of src/main.py: the closure expansion of SNOMED codes             *)
(* (expand_codes_for_concept), the per-cluster driver                      *)
(* (process_csv_to_table) and the top-level run (main).                    *)
(*                                                                         *)
(* Codes are the digit strings "1", "2", ...; on one-digit strings the     *)
(* string order used by sorted() is the numeric order, so a code is        *)
(* modelled by its number.                                                 *)
(*                                                                         *)
(* Three state machines share the variables:                               *)
(*   Spec / FairSpec  one call of expand_codes_for_concept, one step per   *)
(*                    pass of its while loop;                              *)
(*   OrderSpec        the same call, one step per element visited by its   *)
(*                    two for loops, in any iteration order a Python set   *)
(*                    may produce;                                         *)
(*   MainSpec         main(): connect, load, process_csv_to_table.         *)
(***************************************************************************)
EXTENDS Integers, FiniteSets, Sequences, TLC

\* Bounds of the model: the number of distinct codes, the number of rows of
\* the two relation tables together, the number of rows of the input CSV.
NumCodes == 4
MaxEdges == 3
MaxRows == 2

Codes == 1 .. NumCodes

\* All (key, value) rows a relation table may hold.
Pairs == Codes \X Codes

RECURSIVE PairSetsUpTo(_)
PairSetsUpTo(n) ==
    IF n = 0 THEN {{}}
    ELSE LET P == PairSetsUpTo(n - 1)
         IN  P \cup {s \cup {e} : s \in P, e \in Pairs}

\* The Dict[str, Set[str]] built from (key, value) rows: a key exists only
\* for a code on the left of some row.
DictOf(rows) ==
    [k \in {r[1] : r \in rows} |-> {r[2] : r \in {q \in rows : q[1] = k}}]

\* d.get(k, set())
Get(d, k) == IF k \in DOMAIN d THEN d[k] ELSE {}

VARIABLES
    code,            \* expand_codes_for_concept: the seed code
    history_dict,    \* OLDCUI -> set of NEWCUI
    trans_dict,      \* SuperTypeID -> set of SubtypeID
    expanded_codes,
    to_process,
    new_codes,
    pending,         \* codes of to_process the for loop has not visited yet
    kids,            \* children of current_code the inner loop has not visited yet
    pc,
    conns,           \* main: the database connections that are open
    loaded,          \* main: which of trans_dict, history_dict are bound
    df,              \* process_csv_to_table: the rows read from the input CSV
    clusters,        \* unique_clusters still to be processed
    output_rows,
    output_file,     \* the output CSV: whether it was written, and its rows
    log

mainVars == <<conns, loaded, df, clusters, output_rows, output_file, log>>

vars == <<code, history_dict, trans_dict, expanded_codes, to_process,
          new_codes, pending, kids, pc, mainVars>>

\* Line 99: the seed and its direct history replacements.
BaseSet(c, hist) == {c} \cup Get(hist, c)

AddChildOverwrite(nc, child, hist) == {child} \cup Get(hist, child)

\* Lines 104-110 for one child: new_codes.add(child); new_codes |= replacements.
AddChild(nc, child, hist) == nc \cup {child} \cup Get(hist, child)

\* Lines 104-110 over a whole frontier.
Gathered(tp, hist, trans) ==
    LET children == UNION {Get(trans, c) : c \in tp}
    IN  children \cup UNION {Get(hist, ch) : ch \in children}

NewCodesNoFilter(tp, exp, hist, trans) == Gathered(tp, hist, trans)

NewCodesChildrenOnly(tp, exp, hist, trans) ==
    UNION {Get(trans, c) : c \in tp} \ exp

\* Lines 104-111: what one pass of the while loop finds.
NewCodes(tp, exp, hist, trans) == Gathered(tp, hist, trans) \ exp

RECURSIVE Fixpoint(_, _, _, _)
Fixpoint(exp, tp, hist, trans) ==
    LET n == NewCodes(tp, exp, hist, trans)
    IN  IF n = {} THEN exp ELSE Fixpoint(exp \cup n, n, hist, trans)

\* Lines 90-116 as a function of its arguments.
ExpandCodes(c, hist, trans) ==
    Fixpoint(BaseSet(c, hist), BaseSet(c, hist), hist, trans)

Min(S) == CHOOSE x \in S : \A y \in S : x <= y

\* sorted(expanded): the codes in ascending order.
RECURSIVE Sorted(_)
Sorted(S) == IF S = {} THEN << >> ELSE <<Min(S)>> \o Sorted(S \ {Min(S)})

NoFile == [written |-> FALSE, rows |-> << >>]

\* The variables of main and process_csv_to_table before main has started.
MainIdle ==
    /\ conns = {}
    /\ loaded = {}
    /\ df = << >>
    /\ clusters = << >>
    /\ output_rows = << >>
    /\ output_file = NoFile
    /\ log = << >>

-----------------------------------------------------------------------------
\* One call of expand_codes_for_concept.

\* The arguments of a call: a seed code and two tables that hold at most
\* MaxEdges rows in total.
Arguments ==
    /\ code \in Codes
    /\ \E n \in 0 .. MaxEdges :
         \E h \in PairSetsUpTo(n), t \in PairSetsUpTo(MaxEdges - n) :
             /\ Cardinality(h) = n
             /\ history_dict = DictOf(h)
             /\ trans_dict = DictOf(t)

\* Lines 99-101
ExpandInit ==
    /\ Arguments
    /\ expanded_codes = BaseSet(code, history_dict)
    /\ to_process = BaseSet(code, history_dict)
    /\ new_codes = {}
    /\ pending = {}
    /\ kids = {}
    /\ pc = "while"
    /\ MainIdle

Init == ExpandInit

IterateOnce ==
    /\ pc = "while"
    /\ to_process # {}
    /\ LET found == NewCodes(to_process, expanded_codes, history_dict, trans_dict)
       IN  /\ new_codes' = found
           /\ expanded_codes' = expanded_codes \cup found
           /\ to_process' = found
           /\ pc' = "return"
    /\ UNCHANGED <<code, history_dict, trans_dict, pending, kids, mainVars>>

\* Lines 103-115: one pass of the while loop.
Iterate ==
    /\ pc = "while"
    /\ to_process # {}
    /\ LET found == NewCodes(to_process, expanded_codes, history_dict, trans_dict)
       IN  /\ new_codes' = found
           /\ IF found = {}
              THEN /\ pc' = "return"
                   /\ UNCHANGED <<expanded_codes, to_process>>
              ELSE /\ expanded_codes' = expanded_codes \cup found
                   /\ to_process' = found
                   /\ pc' = "while"
    /\ UNCHANGED <<code, history_dict, trans_dict, pending, kids, mainVars>>

Next == Iterate

Spec == Init /\ [][Next]_vars

\* The interpreter runs the loop: a pass that can be taken is taken.
FairSpec == Spec /\ WF_vars(Iterate)

-----------------------------------------------------------------------------
\* The same call, one step per element the two for loops visit.  A Python
\* set is iterated in an order the program does not control, so each loop
\* takes any element it has not visited yet.

\* Lines 99-105: the base set, and the first pass entered (the base set is
\* never empty).
OrderInit ==
    /\ Arguments
    /\ expanded_codes = BaseSet(code, history_dict)
    /\ to_process = BaseSet(code, history_dict)
    /\ new_codes = {}
    /\ pending = BaseSet(code, history_dict)
    /\ kids = {}
    /\ pc = "for"
    /\ MainIdle

\* Lines 105-106: the outer for loop takes its next current_code.
NextCode ==
    /\ pc = "for"
    /\ kids = {}
    /\ \E current_code \in pending :
         /\ pending' = pending \ {current_code}
         /\ kids' = Get(trans_dict, current_code)
    /\ UNCHANGED <<code, history_dict, trans_dict, expanded_codes, to_process,
                   new_codes, pc, mainVars>>

\* Lines 107-110: the inner for loop takes its next child.
NextChild ==
    /\ pc = "for"
    /\ \E child \in kids :
         /\ kids' = kids \ {child}
         /\ new_codes' = AddChild(new_codes, child, history_dict)
    /\ UNCHANGED <<code, history_dict, trans_dict, expanded_codes, to_process,
                   pending, pc, mainVars>>

\* Lines 111-115, 103-104: the novelty filter, then break, or the next
\* frontier and the fresh new_codes of the next pass.
EndPass ==
    /\ pc = "for"
    /\ kids = {}
    /\ pending = {}
    /\ LET found == new_codes \ expanded_codes
       IN  IF found = {}
           THEN /\ pc' = "return"
                /\ new_codes' = found
                /\ UNCHANGED <<expanded_codes, to_process, pending>>
           ELSE /\ expanded_codes' = expanded_codes \cup found
                /\ to_process' = found
                /\ new_codes' = {}
                /\ pending' = found
                /\ pc' = "for"
    /\ UNCHANGED <<code, history_dict, trans_dict, kids, mainVars>>

OrderNext == NextCode \/ NextChild \/ EndPass

OrderSpec == OrderInit /\ [][OrderNext]_vars

-----------------------------------------------------------------------------
\* main(): connect, load the two tables, process_csv_to_table, close.

\* A cell of a table read as text: a missing value (NaN), or a non-empty
\* string, here a code with or without surrounding blanks.
NaNCode == [na |-> TRUE, core |-> 0, pad |-> FALSE]
RawCode(c, p) == [na |-> FALSE, core |-> c, pad |-> p]

\* str.strip() on a cell that holds a string.
Strip(cell) == cell.core

IsNa(cell) == cell.na

\* The contents the two database tables may have: SCTTC rows
\* (SuperTypeID, SubtypeID) and SCTHIST rows (OLDCUI, NEWCUI), some of them
\* stored with blanks around the identifiers.
TcTables ==
    { {},
      {<<RawCode(1, FALSE), RawCode(2, FALSE)>>, <<RawCode(3, FALSE), RawCode(4, FALSE)>>},
      {<<RawCode(1, TRUE), RawCode(3, FALSE)>>, <<RawCode(2, FALSE), RawCode(3, TRUE)>>} }
HistTables ==
    { {},
      {<<RawCode(2, TRUE), RawCode(3, TRUE)>>},
      {<<RawCode(1, FALSE), RawCode(2, FALSE)>>, <<RawCode(1, TRUE), RawCode(4, FALSE)>>} }

\* Lines 58-63 and 81-86: both columns of every row are stripped, and the
\* second is added to the set kept under the first.
LoadDict(rows) == DictOf({<<Strip(r[1]), Strip(r[2])>> : r \in rows})

\* A missing "Aliases" cell.
NaNAlias == "NaN"
Aliases == {"K1", "K2", NaNAlias}

\* The values of the "Code System" column: one that matches after upper(),
\* one that does not.
Systems == {"Snomed CT", "ICD-10"}

\* str.upper() on the values of the "Code System" column.
Upper(s) == IF s = "Snomed CT" THEN "SNOMED CT" ELSE s

\* The rows a CSV file may hold; p tells whether its codes carry blanks.
CsvRows(p) ==
    [system : Systems, alias : Aliases,
     code : {NaNCode} \cup {RawCode(c, p) : c \in Codes}]

DataFrames ==
    UNION {[1 .. n -> CsvRows(p)] : n \in 0 .. MaxRows, p \in BOOLEAN}

\* Elementwise == on a column with missing values: NaN equals nothing.
AliasEq(a, b) == a # NaNAlias /\ b # NaNAlias /\ a = b

\* Lines 135-136: the boolean-mask selection of the rows whose Code System
\* is SNOMED CT.
SnomedRows(rows) ==
    LET IsSnomed(r) == Upper(r.system) = "SNOMED CT"
    IN  SelectSeq(rows, IsSnomed)

\* Series.unique(): the values in order of first appearance, a missing value
\* being one of them.
RECURSIVE Unique(_, _)
Unique(rows, seen) ==
    IF rows = << >> THEN << >>
    ELSE IF Head(rows).alias \in seen THEN Unique(Tail(rows), seen)
    ELSE <<Head(rows).alias>> \o Unique(Tail(rows), seen \cup {Head(rows).alias})

\* Line 138
UniqueClusters(rows) == Unique(SnomedRows(rows), {})

\* Line 144
ClusterRows(rows, cluster_id) ==
    LET Same(r) == AliasEq(r.alias, cluster_id)
    IN  SelectSeq(SnomedRows(rows), Same)

RowsForReversed(cluster_id, expanded) ==
    LET codes == Sorted(expanded)
    IN  [i \in 1 .. Len(codes) |->
            [cluster |-> cluster_id, code |-> codes[Len(codes) + 1 - i]]]

\* Lines 160-161: the rows appended for one cluster.
RowsFor(cluster_id, expanded) ==
    LET codes == Sorted(expanded)
    IN  [i \in 1 .. Len(codes) |-> [cluster |-> cluster_id, code |-> codes[i]]]

MainInit ==
    /\ pc = "connect"
    /\ MainIdle
    /\ code = 0
    /\ history_dict = << >>
    /\ trans_dict = << >>
    /\ expanded_codes = {}
    /\ to_process = {}
    /\ new_codes = {}
    /\ pending = {}
    /\ kids = {}

expandVars == <<code, expanded_codes, to_process, new_codes, pending, kids>>

\* Lines 170-173: both connections open.
Connect ==
    /\ pc = "connect"
    /\ conns' = {"transitive", "history"}
    /\ log' = Append(log, <<"info", "connections opened">>)
    /\ pc' = "load_trans"
    /\ UNCHANGED <<history_dict, trans_dict, loaded, df, clusters,
                   output_rows, output_file, expandVars>>

\* Lines 174-176: one of the two connect_to_db calls raises.
ConnectFails ==
    /\ pc = "connect"
    /\ \E failing \in {"transitive", "history"} :
         conns' = IF failing = "history" THEN {"transitive"} ELSE {}
    /\ log' = Append(log, <<"error", "connecting">>)
    /\ pc' = "exit"
    /\ UNCHANGED <<history_dict, trans_dict, loaded, df, clusters,
                   output_rows, output_file, expandVars>>

\* Lines 179, 44-65: the whole SCTTC table is read into trans_dict.
LoadTransitive ==
    /\ pc = "load_trans"
    /\ \E rows \in TcTables : trans_dict' = LoadDict(rows)
    /\ loaded' = loaded \cup {"trans_dict"}
    /\ pc' = "load_hist"
    /\ UNCHANGED <<history_dict, conns, df, clusters, output_rows,
                   output_file, log, expandVars>>

\* Lines 180, 67-88: the whole SCTHIST table is read into history_dict.
LoadHistory ==
    /\ pc = "load_hist"
    /\ \E rows \in HistTables : history_dict' = LoadDict(rows)
    /\ loaded' = loaded \cup {"history_dict"}
    /\ pc' = "read_csv"
    /\ UNCHANGED <<trans_dict, conns, df, clusters, output_rows,
                   output_file, log, expandVars>>

LoadFailsContinues ==
    /\ pc \in {"load_trans", "load_hist"}
    /\ log' = Append(log, <<"error", "loading">>)
    /\ pc' = "read_csv"
    /\ UNCHANGED <<history_dict, trans_dict, conns, loaded, df, clusters,
                   output_rows, output_file, expandVars>>

\* Lines 181-185: a loader raises (while executing the query or fetching a
\* batch); what it had read is dropped with its local dictionary.
LoadFails ==
    /\ pc \in {"load_trans", "load_hist"}
    /\ log' = Append(log, <<"error", "loading">>)
    /\ conns' = {}
    /\ pc' = "exit"
    /\ UNCHANGED <<history_dict, trans_dict, loaded, df, clusters,
                   output_rows, output_file, expandVars>>

\* Lines 187, 132-141: the input CSV is read and its clusters listed.
ReadCsv ==
    /\ pc = "read_csv"
    /\ \E frame \in DataFrames :
         /\ df' = frame
         /\ clusters' = UniqueClusters(frame)
    /\ output_rows' = << >>
    /\ pc' = "clusters"
    /\ UNCHANGED <<history_dict, trans_dict, conns, loaded, output_file,
                   log, expandVars>>

\* Lines 143-163: one pass of the loop over unique_clusters.  A missing
\* cluster identifier is one of unique_clusters, but no row compares equal to
\* it, so cluster_rows is empty and iloc[0] raises IndexError outside the try
\* block; nothing up to main catches it.  expand_codes_for_concept raises
\* nothing on two dictionaries, so the except branch of lines 162-163 has no
\* step.
ProcessCluster ==
    /\ pc = "clusters"
    /\ clusters # << >>
    /\ LET cluster_id == Head(clusters)
           cluster_rows == ClusterRows(df, cluster_id)
       IN  IF cluster_rows = << >>
           THEN /\ pc' = "crashed"
                /\ UNCHANGED <<clusters, output_rows, log>>
           ELSE LET cell == cluster_rows[1].code
                IN  IF IsNa(cell)
                    THEN /\ log' = Append(log, <<"warning", cluster_id>>)
                         /\ UNCHANGED output_rows
                         /\ clusters' = Tail(clusters)
                         /\ pc' = "clusters"
                    ELSE LET base_code == Strip(cell)
                             base_count ==
                                 Cardinality(BaseSet(base_code, history_dict))
                             expanded ==
                                 ExpandCodes(base_code, history_dict, trans_dict)
                             final_count == Cardinality(expanded)
                         IN  /\ log' = Append(log,
                                   <<"info", cluster_id, base_count,
                                     final_count - base_count, final_count>>)
                             /\ output_rows' =
                                   output_rows \o RowsFor(cluster_id, expanded)
                             /\ clusters' = Tail(clusters)
                             /\ pc' = "clusters"
    /\ UNCHANGED <<history_dict, trans_dict, conns, loaded, df, output_file,
                   expandVars>>

\* Lines 165-167: the output CSV is written from output_rows.
WriteOutput ==
    /\ pc = "clusters"
    /\ clusters = << >>
    /\ output_file' = [written |-> TRUE, rows |-> output_rows]
    /\ pc' = "close"
    /\ UNCHANGED <<history_dict, trans_dict, conns, loaded, df, clusters,
                   output_rows, log, expandVars>>

\* Lines 189-199
CloseConnections ==
    /\ pc = "close"
    /\ conns' = {}
    /\ log' = Append(log, <<"info", "connections closed">>)
    /\ pc' = "exit"
    /\ UNCHANGED <<history_dict, trans_dict, loaded, df, clusters,
                   output_rows, output_file, expandVars>>

MainNext ==
    \/ Connect
    \/ ConnectFails
    \/ LoadTransitive
    \/ LoadHistory
    \/ LoadFails
    \/ ReadCsv
    \/ ProcessCluster
    \/ WriteOutput
    \/ CloseConnections

MainSpec == MainInit /\ [][MainNext]_vars

-----------------------------------------------------------------------------
\* C1: whatever the two relations (cycles included) and the seed, the while
\* loop of expand_codes_for_concept eventually reaches its return.
C1_Terminates == <>(pc = "return")

\* A cycle through the seed in the subtype relation was walked, and the call
\* returned after at least one productive pass.
C1_Witness ==
    /\ pc = "return"
    /\ expanded_codes # BaseSet(code, history_dict)
    /\ \E c \in expanded_codes : code \in Get(trans_dict, c)

\* C2: every code of the returned set that is a key of the redirect table has
\* all its replacements in the returned set.
C2_RedirectComplete ==
    pc = "return" =>
        \A c \in expanded_codes : Get(history_dict, c) \subseteq expanded_codes

\* C3: every code of the returned set has all its direct children in the
\* returned set.
C3_HierarchyComplete ==
    pc = "return" =>
        \A c \in expanded_codes : Get(trans_dict, c) \subseteq expanded_codes

\* The replacement of a retired child had a child that only it leads to.
C3_Witness ==
    /\ pc = "return"
    /\ \E a, b, b2, c \in expanded_codes :
         /\ Cardinality({a, b, b2, c}) = 4
         /\ a = code
         /\ b \in Get(trans_dict, a)
         /\ b2 \in Get(history_dict, b)
         /\ c \in Get(trans_dict, b2)
         /\ c \notin Get(trans_dict, a) \cup Get(trans_dict, b)

\* C4: expanding every code of the returned set again and taking the union
\* gives the returned set.
C4_Idempotent ==
    pc = "return" =>
        UNION {ExpandCodes(r, history_dict, trans_dict) : r \in expanded_codes}
            = expanded_codes

\* C9: in whatever order the frontier and the children of a code are
\* iterated, the call returns the set that depends on the seed and the two
\* tables only, so the sorted rows written from it are the same in every run.
C9_OrderIndependent ==
    pc = "return" =>
        /\ expanded_codes = ExpandCodes(code, history_dict, trans_dict)
        /\ Sorted(expanded_codes)
             = Sorted(ExpandCodes(code, history_dict, trans_dict))

\* The call returned after a pass whose frontier held two codes with
\* different children, so that the pass could be walked in several orders.
C9_Witness ==
    /\ pc = "return"
    /\ \E a, b \in expanded_codes :
         /\ a # b
         /\ Get(trans_dict, a) # {}
         /\ Get(trans_dict, b) # {}
         /\ Get(trans_dict, a) \cap Get(trans_dict, b) = {}
         /\ {a, b} \subseteq BaseSet(code, history_dict)
         /\ (Get(trans_dict, a) \cup Get(trans_dict, b))
               \cap BaseSet(code, history_dict) = {}

\* The closure conditions on a set of codes: it holds the seed and its direct
\* replacements and, with a code, its direct children and their direct
\* replacements.
Closed(X) ==
    /\ BaseSet(code, history_dict) \subseteq X
    /\ \A c \in X :
         /\ Get(trans_dict, c) \subseteq X
         /\ \A ch \in Get(trans_dict, c) : Get(history_dict, ch) \subseteq X

\* The least closed set, built from below: the base set, then whatever the
\* closure conditions force into it, until nothing more is forced.
RECURSIVE Forced(_)
Forced(X) ==
    LET children == UNION {Get(trans_dict, c) : c \in X}
        Y == X \cup children \cup UNION {Get(history_dict, ch) : ch \in children}
    IN  IF Y = X THEN X ELSE Forced(Y)

LeastClosed == Forced(BaseSet(code, history_dict))

RECURSIVE ReachFrom(_)
ReachFrom(S) ==
    LET T == S \cup UNION {Get(trans_dict, c) \cup Get(history_dict, c) : c \in S}
    IN  IF T = S THEN S ELSE ReachFrom(T)

\* C10: the returned set is the least set that holds the seed and its direct
\* replacements and, with a code, its direct children and their direct
\* replacements; none of its codes is unreachable from the seed, and a seed
\* in neither table expands to itself alone.
C10_LeastClosedSet ==
    pc = "return" =>
        /\ Closed(expanded_codes)
        /\ expanded_codes = LeastClosed
        /\ expanded_codes \subseteq ReachFrom({code})
        /\ (code \notin DOMAIN history_dict \cup DOMAIN trans_dict
              => expanded_codes = {code})

\* A child's replacement was taken in, while a code reachable from the seed
\* through two redirects in a row was left out.
C10_Witness ==
    /\ pc = "return"
    /\ \E c \in expanded_codes, ch \in expanded_codes :
         /\ ch \in Get(trans_dict, c)
         /\ Get(history_dict, ch) # {}
         /\ Get(history_dict, ch) \subseteq expanded_codes
    /\ ReachFrom({code}) # expanded_codes
-----------------------------------------------------------------------------
\* Claims about process_csv_to_table and main (MainSpec).

\* The codes of the output file's rows for one cluster, in file order.
FileCodes(cluster_id) ==
    LET Mine(r) == r.cluster = cluster_id
        mine == SelectSeq(output_file.rows, Mine)
    IN  [i \in 1 .. Len(mine) |-> mine[i].code]

SeqRange(q) == {q[i] : i \in 1 .. Len(q)}

\* The cluster identifiers of the input (missing identifiers aside).
NamedClusters == SeqRange(UniqueClusters(df)) \ {NaNAlias}

\* The seed codes of a cluster: the codes of all its rows.
SeedsOf(cluster_id) ==
    {Strip(r.code) : r \in {q \in SeqRange(ClusterRows(df, cluster_id)) : ~IsNa(q.code)}}

\* C5: the codes written for a cluster are the union of the expansions of all
\* its seed codes.
C5_UnionOfAllSeeds ==
    output_file.written =>
        \A k \in NamedClusters :
            SeqRange(FileCodes(k)) =
                UNION {ExpandCodes(c, history_dict, trans_dict) : c \in SeedsOf(k)}

\* What lines 144-161 emit for one cluster taken alone.
RowsAlone(rows, cluster_id) ==
    LET cluster_rows == ClusterRows(rows, cluster_id)
    IN  IF cluster_rows = << >> \/ IsNa(cluster_rows[1].code)
        THEN << >>
        ELSE Sorted(ExpandCodes(Strip(cluster_rows[1].code),
                                history_dict, trans_dict))

\* A cluster fails when its rows cannot be looked up or it has no seed code.
Fails(cluster_id) ==
    \/ ClusterRows(df, cluster_id) = << >>
    \/ IsNa(ClusterRows(df, cluster_id)[1].code)

\* C6: a failure local to one cluster never aborts the run: once the cluster
\* loop has been entered the run ends with the output written, a failing
\* cluster has no rows in it, and every other cluster has the rows it gets
\* from an input without the failing clusters.
C6_ClusterFailureIsLocal ==
    (pc \in {"exit", "crashed"} /\ loaded = {"trans_dict", "history_dict"}) =>
        /\ pc = "exit"
        /\ output_file.written
        /\ \A k \in SeqRange(UniqueClusters(df)) :
             IF Fails(k)
             THEN FileCodes(k) = << >>
             ELSE LET Passing(r) == ~Fails(r.alias)
                  IN  FileCodes(k) = RowsAlone(SelectSeq(df, Passing), k)

\* C7: when a connection or a table load fails, no cluster is processed and
\* no output file is written; the cluster loop is reached only with both
\* tables loaded.
C7_NoOutputWithoutTables ==
    /\ (pc \in {"read_csv", "clusters", "close", "crashed"} \/ df # << >>
          \/ output_rows # << >> \/ output_file.written)
         => loaded = {"trans_dict", "history_dict"}
    /\ (\E i \in 1 .. Len(log) : log[i][1] = "error")
         => /\ ~output_file.written
            /\ output_rows = << >>
            /\ \A i \in 1 .. Len(log) : log[i][1] # "warning" /\ Len(log[i]) = 2

\* The history load failed after the subtype table had been loaded.
C7_Witness ==
    /\ pc = "exit"
    /\ loaded = {"trans_dict"}
    /\ trans_dict # << >>
    /\ \E i \in 1 .. Len(log) : log[i] = <<"error", "loading">>

\* C8: within a cluster the output codes are in strictly ascending order (so
\* each appears once), and every cluster that was expanded has all the codes
\* of its expansion, whether or not another cluster has them too.
C8_SortedUniquePerCluster ==
    /\ \A i, j \in 1 .. Len(output_rows) :
         (i < j /\ output_rows[i].cluster = output_rows[j].cluster)
             => output_rows[i].code < output_rows[j].code
    /\ output_file.written =>
         /\ output_file.rows = output_rows
         /\ \A k \in NamedClusters :
              ~Fails(k) =>
                  SeqRange(FileCodes(k)) =
                      ExpandCodes(Strip(ClusterRows(df, k)[1].code),
                                  history_dict, trans_dict)

\* Two clusters with several codes each were written, and one code is in a
\* row of both.
C8_Witness ==
    /\ output_file.written
    /\ \E i, j \in 1 .. Len(output_file.rows) :
         /\ output_file.rows[i].cluster # output_file.rows[j].cluster
         /\ output_file.rows[i].code = output_file.rows[j].code
         /\ Len(FileCodes(output_file.rows[i].cluster)) > 1
         /\ Len(FileCodes(output_file.rows[j].cluster)) > 1
====
